---- MODULE Spec2Model ----
(***************************************************************************)
(* Model of the restaurant data pipeline (data_audit.py) and of the        *)
(* scoring engine (scoring_engine.py).                                     *)
(*                                                                         *)
(* Conventions                                                             *)
(*   - a Python float is an exact rational <<n, d>> in lowest terms, d > 0 *)
(*   - a value rounded to one decimal (round(x, 1)) is an integer number   *)
(*     of tenths                                                           *)
(*   - a Python str is a sequence of one-character strings                 *)
(*   - a datetime is a number of hours since 0001-01-01 00:00              *)
(*   - NaN / None is the model value NA, a tuple no string is equal to    *)
(***************************************************************************)
EXTENDS Integers, Sequences, FiniteSets, TLC

VARIABLES now, rng, pc, df_rest, df_rev, benchmarks, ret

vars == <<now, rng, pc, df_rest, df_rev, benchmarks, ret>>

NA == <<"NaN">>

\* ------------------------------------------------------------------------
\* Bounds of the model
\* ------------------------------------------------------------------------
MaxWords == 3
MaxRev == 2
MaxMonths == 15
RngMod == 2

\* ------------------------------------------------------------------------
\* Exact rational arithmetic (Python floats)
\* ------------------------------------------------------------------------
Abs(i) == IF i < 0 THEN -i ELSE i

RECURSIVE Gcd(_, _)
Gcd(a, b) == IF b = 0 THEN a ELSE Gcd(b, a % b)

Q(n, d) ==
    LET s == IF d < 0 THEN -1 ELSE 1
        g == Gcd(Abs(n), Abs(d))
    IN  <<(s * n) \div g, (s * d) \div g>>

QInt(i) == <<i, 1>>
QAdd(a, b) == Q(a[1] * b[2] + b[1] * a[2], a[2] * b[2])
QSub(a, b) == Q(a[1] * b[2] - b[1] * a[2], a[2] * b[2])
QMul(a, b) == Q(a[1] * b[1], a[2] * b[2])
QDiv(a, b) == Q(a[1] * b[2], a[2] * b[1])
QLt(a, b) == a[1] * b[2] < b[1] * a[2]
QLe(a, b) == a[1] * b[2] <= b[1] * a[2]
QMin(a, b) == IF QLt(b, a) THEN b ELSE a
QTenths(t) == Q(t, 10)

\* round(x, 1): the nearest tenth, a tie going to the even tenth; the result
\* is the number of tenths.
Round1(x) ==
    LET n10 == 10 * x[1]
        fl  == n10 \div x[2]
        rem == n10 - fl * x[2]
    IN  IF 2 * rem < x[2] THEN fl
        ELSE IF 2 * rem > x[2] THEN fl + 1
        ELSE IF fl % 2 = 0 THEN fl ELSE fl + 1

\* ------------------------------------------------------------------------
\* Strings
\* ------------------------------------------------------------------------
Digits == {"0", "1", "2", "3", "4", "5", "6", "7", "8", "9"}

DigitVal(c) ==
    CASE c = "0" -> 0 [] c = "1" -> 1 [] c = "2" -> 2 [] c = "3" -> 3
      [] c = "4" -> 4 [] c = "5" -> 5 [] c = "6" -> 6 [] c = "7" -> 7
      [] c = "8" -> 8 [] c = "9" -> 9

LowerChar(c) ==
    CASE c = "M" -> "m" [] c = "J" -> "j" [] c = "W" -> "w" [] c = "T" -> "t"
      [] c = "S" -> "s" [] c = "H" -> "h" [] c = "G" -> "g" [] c = "V" -> "v"
      [] c = "E" -> "e" [] c = "B" -> "b"
      [] OTHER -> c

\* str.lower()
Lower(s) == [i \in 1..Len(s) |-> LowerChar(s[i])]

\* `sub in s`
Contains(s, sub) ==
    \E i \in 0..(Len(s) - Len(sub)) :
        \A j \in 1..Len(sub) : s[i + j] = sub[j]

RECURSIVE JoinWords(_)
JoinWords(ws) ==
    IF Len(ws) = 0 THEN <<>>
    ELSE IF Len(ws) = 1 THEN ws[1]
    ELSE ws[1] \o <<" ">> \o JoinWords(Tail(ws))

\* int() of a run of digits
RECURSIVE DigitsToInt(_)
DigitsToInt(ds) ==
    IF Len(ds) = 0 THEN 0
    ELSE 10 * DigitsToInt(SubSeq(ds, 1, Len(ds) - 1)) + DigitVal(ds[Len(ds)])

IsDigits(s) == \A i \in 1..Len(s) : s[i] \in Digits

\* the end of the run of digits that starts at position i
RECURSIVE RunEnd(_, _)
RunEnd(s, i) ==
    IF i < Len(s) /\ s[i + 1] \in Digits THEN RunEnd(s, i + 1) ELSE i

\* re.search(r'\d+', s): the first maximal run of digits, <<>> when none
FirstDigitRun(s) ==
    IF \E i \in 1..Len(s) : s[i] \in Digits
    THEN LET st == CHOOSE i \in 1..Len(s) :
                       /\ s[i] \in Digits
                       /\ \A k \in 1..(i - 1) : s[k] \notin Digits
         IN  SubSeq(s, st, RunEnd(s, st))
    ELSE <<>>

\* ------------------------------------------------------------------------
\* Calendar (datetime, timedelta, strptime)
\* ------------------------------------------------------------------------
IsLeap(y) == y % 4 = 0 /\ (y % 100 # 0 \/ y % 400 = 0)

DaysInMonth(y, m) ==
    IF m = 2 THEN (IF IsLeap(y) THEN 29 ELSE 28)
    ELSE IF m \in {4, 6, 9, 11} THEN 30 ELSE 31

RECURSIVE DaysBeforeMonth(_, _)
DaysBeforeMonth(y, m) ==
    IF m <= 1 THEN 0 ELSE DaysBeforeMonth(y, m - 1) + DaysInMonth(y, m - 1)

DaysBeforeYear(y) ==
    (y - 1) * 365 + ((y - 1) \div 4) - ((y - 1) \div 100) + ((y - 1) \div 400)

\* date.toordinal(): 0001-01-01 is day 1
Ordinal(y, m, d) == DaysBeforeYear(y) + DaysBeforeMonth(y, m) + d

\* datetime(y, m, d, h) as hours since 0001-01-01 00:00
DateTime(y, m, d, h) == (Ordinal(y, m, d) - 1) * 24 + h

\* datetime.max, to the hour
MaxDateTime == DateTime(9999, 12, 31, 23)

\* the year of a datetime
YearOf(t) ==
    LET n    == t \div 24
        n400 == n \div 146097
        r400 == n % 146097
        n100 == r400 \div 36524
        r100 == r400 % 36524
        n4   == r100 \div 1461
        r4   == r100 % 1461
        n1   == r4 \div 365
        y    == n400 * 400 + n100 * 100 + n4 * 4 + n1 + 1
    IN  IF n1 = 4 \/ n100 = 4 THEN y - 1 ELSE y

\* the month (1..12) of a datetime
MonthOf(t) ==
    LET y   == YearOf(t)
        doy == (t \div 24) + 1 - DaysBeforeYear(y)
    IN  CHOOSE m \in 1..12 :
            /\ DaysBeforeMonth(y, m) < doy
            /\ doy <= DaysBeforeMonth(y, m) + DaysInMonth(y, m)

\* Timestamp.to_period('M'): months are numbered year * 12 + (month - 1)
MonthIndex(t) == YearOf(t) * 12 + (MonthOf(t) - 1)

\* today - timedelta(hours = h): OverflowError when the timedelta is over
\* 999999999 days or the resulting datetime is outside datetime.min (hour 0)
\* .. datetime.max
Ok(v) == [exc |-> "none", val |-> v]
Raised(e) == [exc |-> e, val |-> NA]

MinusHours(today, h) ==
    IF h \div 24 > 999999999 \/ today - h < 0 \/ today - h > MaxDateTime
    THEN Raised("OverflowError")
    ELSE Ok(today - h)

MinusDays(today, d) ==
    IF d > 999999999 THEN Raised("OverflowError") ELSE MinusHours(today, d * 24)

\* the positions of the character c in s
Positions(s, c) == {i \in 1..Len(s) : s[i] = c}

\* datetime.strptime(s, fmt) for the formats '%d<sep>%m<sep>%Y' (yearFirst
\* FALSE) and '%Y<sep>%m<sep>%d' (yearFirst TRUE)
Strptime(s, sep, yearFirst) ==
    LET P == Positions(s, sep)
    IN  IF Cardinality(P) # 2 THEN Raised("ValueError")
        ELSE
        LET p1 == CHOOSE i \in P : \A k \in P : i <= k
            p2 == CHOOSE i \in P : \A k \in P : k <= i
            f1 == SubSeq(s, 1, p1 - 1)
            f2 == SubSeq(s, p1 + 1, p2 - 1)
            f3 == SubSeq(s, p2 + 1, Len(s))
            fy == IF yearFirst THEN f1 ELSE f3
            fd == IF yearFirst THEN f3 ELSE f1
            okFields ==
                /\ IsDigits(f1) /\ IsDigits(f2) /\ IsDigits(f3)
                /\ Len(fy) = 4
                /\ Len(f2) \in {1, 2}
                /\ Len(fd) \in {1, 2}
        IN  IF ~okFields THEN Raised("ValueError")
            ELSE
            LET y == DigitsToInt(fy)
                m == DigitsToInt(f2)
                d == DigitsToInt(fd)
            IN  IF y >= 1 /\ m \in 1..12 /\ d >= 1 /\ d <= DaysInMonth(y, m)
                THEN Ok(DateTime(y, m, d, 0))
                ELSE Raised("ValueError")

\* ------------------------------------------------------------------------
\* data_audit.py: value coercers
\* ------------------------------------------------------------------------
\* the string literals of the module
Literal ==
    [einem_monat |-> <<"e","i","n","e","m"," ","m","o","n","a","t">>,
     monat       |-> <<"m","o","n","a","t">>,
     einem_jahr  |-> <<"e","i","n","e","m"," ","j","a","h","r">>,
     jahr        |-> <<"j","a","h","r">>,
     einer_woche |-> <<"e","i","n","e","r"," ","w","o","c","h","e">>,
     woche       |-> <<"w","o","c","h","e">>,
     tag         |-> <<"t","a","g">>,
     stunde      |-> <<"s","t","u","n","d","e">>,
     gestern     |-> <<"g","e","s","t","e","r","n">>,
     heute       |-> <<"h","e","u","t","e">>,
     nan         |-> <<"n","a","n">>,
     district    |-> <<"F","r","a","n","k","f","u","r","t"," ","C","i","t","y">>,
     price       |-> <<"2","0","-","3","0">>]

\* str(x) of a cell: NaN prints as 'nan'
Str(x) == IF x = NA THEN Literal.nan ELSE x

_parse_german_date(today, date_str) ==
    LET s   == Lower(Str(date_str))
        run == FirstDigitRun(s)
        n   == IF run # <<>> THEN DigitsToInt(run) ELSE 1
    IN  IF Contains(s, Literal.einem_monat) THEN MinusDays(today, 30)
        ELSE IF Contains(s, Literal.monat) THEN MinusDays(today, n * 30)
        ELSE IF Contains(s, Literal.einem_jahr) THEN MinusDays(today, 365)
        ELSE IF Contains(s, Literal.jahr) THEN MinusDays(today, n * 365)
        ELSE IF Contains(s, Literal.einer_woche) THEN MinusDays(today, 7)
        ELSE IF Contains(s, Literal.woche) THEN MinusDays(today, n * 7)
        ELSE IF Contains(s, Literal.tag) THEN MinusDays(today, n)
        ELSE IF Contains(s, Literal.stunde) THEN MinusHours(today, n)
        ELSE IF Contains(s, Literal.gestern) THEN MinusDays(today, 1)
        ELSE IF Contains(s, Literal.heute) THEN Ok(today)
        ELSE IF Strptime(Str(date_str), ".", FALSE).exc = "none"
             THEN Strptime(Str(date_str), ".", FALSE)
        ELSE IF Strptime(Str(date_str), "-", TRUE).exc = "none"
             THEN Strptime(Str(date_str), "-", TRUE)
        ELSE IF Strptime(Str(date_str), "/", FALSE).exc = "none"
             THEN Strptime(Str(date_str), "/", FALSE)
        ELSE MinusDays(today, 90)

\* ------------------------------------------------------------------------
\* Data frames: cols is the sequence of column headers, rows the sequence
\* of rows, each row a function from the headers to the cells
\* ------------------------------------------------------------------------
None == "None"

LowerName(h) ==
    CASE h = "Page_URL" -> "page_url"
      [] h = "URL" -> "url"
      [] h = "Rating" -> "rating"
      [] h = "Reviews" -> "reviews"
      [] h = "Website" -> "website"
      [] h = "Owner_Response" -> "owner_response"
      [] OTHER -> h

SeqRange(q) == {q[i] : i \in 1..Len(q)}

\* Case-insensitive column lookup: the actual header of the first candidate
\* that the table has, or None
find_col(df, candidates) ==
    LET has(c) == \E j \in 1..Len(df.cols) : LowerName(df.cols[j]) = LowerName(c)
        hits   == {i \in 1..Len(candidates) : has(candidates[i])}
    IN  IF hits = {} THEN None
        ELSE LET c == candidates[CHOOSE i \in hits : \A k \in hits : i <= k]
                 J == {j \in 1..Len(df.cols) : LowerName(df.cols[j]) = LowerName(c)}
             IN  df.cols[CHOOSE j \in J : \A k \in J : k <= j]

\* df[col] = vals
SetCol(df, col, vals) ==
    [cols |-> IF col \in SeqRange(df.cols) THEN df.cols ELSE Append(df.cols, col),
     rows |-> [i \in 1..Len(df.rows) |-> (col :> vals[i]) @@ df.rows[i]]]

NRows(df) == Len(df.rows)

\* ------------------------------------------------------------------------
\* data_audit.py: loaders
\* ------------------------------------------------------------------------
\* str.replace(',', '.')
CommaToDot(s) == [i \in 1..Len(s) |-> IF s[i] = "," THEN "." ELSE s[i]]

RECURSIVE Pow10(_)
Pow10(k) == IF k = 0 THEN 1 ELSE 10 * Pow10(k - 1)

\* float() of the first match of (\d+\.?\d*) in s, NA when there is none
ExtractFloat(s) ==
    IF FirstDigitRun(s) = <<>> THEN NA
    ELSE
    LET st == CHOOSE i \in 1..Len(s) :
                  /\ s[i] \in Digits
                  /\ \A k \in 1..(i - 1) : s[k] \notin Digits
        e1 == RunEnd(s, st)
        ip == DigitsToInt(SubSeq(s, st, e1))
    IN  IF e1 + 2 <= Len(s) /\ s[e1 + 1] = "." /\ s[e1 + 2] \in Digits
        THEN LET e2 == RunEnd(s, e1 + 2)
                 fr == SubSeq(s, e1 + 2, e2)
             IN  QAdd(QInt(ip), Q(DigitsToInt(fr), Pow10(Len(fr))))
        ELSE QInt(ip)

\* the rating coercion of _load_restaurants
RatingCoercion(x) ==
    LET v == ExtractFloat(CommaToDot(Str(x)))
    IN  IF v = NA THEN QInt(0) ELSE v

\* re.findall(r'\d+', s)
RECURSIVE FindAllDigitRuns(_)
FindAllDigitRuns(s) ==
    IF FirstDigitRun(s) = <<>> THEN <<>>
    ELSE LET st == CHOOSE i \in 1..Len(s) :
                       /\ s[i] \in Digits
                       /\ \A k \in 1..(i - 1) : s[k] \notin Digits
             e  == RunEnd(s, st)
         IN  <<SubSeq(s, st, e)>> \o FindAllDigitRuns(SubSeq(s, e + 1, Len(s)))

_parse_int(x) ==
    LET found == FindAllDigitRuns(Str(x))
    IN  IF found = <<>> THEN 0
        ELSE IF Len(found) = 1 THEN DigitsToInt(found[1])
        ELSE DigitsToInt(found[1] \o found[2])

\* df['rating_n'] = ...
AddRatingN(df, rating_col) ==
    SetCol(df, "rating_n",
           [i \in 1..NRows(df) |-> IF rating_col # None
                                   THEN RatingCoercion(df.rows[i][rating_col])
                                   ELSE QInt(0)])

\* df['rev_count_n'] = ...
AddRevCountN(df, rev_col) ==
    SetCol(df, "rev_count_n",
           [i \in 1..NRows(df) |-> IF rev_col # None
                                   THEN _parse_int(df.rows[i][rev_col])
                                   ELSE 0])

\* the default of a missing optional column
AddDefault(df, col, value) ==
    IF find_col(df, <<col>>) = None
    THEN SetCol(df, col, [i \in 1..NRows(df) |-> value])
    ELSE df

WithRevCountN(df) == AddRevCountN(df, find_col(df, <<"review_count", "review_co", "reviews", "rev_count">>))

_load_restaurants(raw) ==
    AddDefault(
        AddDefault(WithRevCountN(AddRatingN(raw, find_col(raw, <<"rating">>))),
                   "district", Literal.district),
        "price", Literal.price)

\* pd.to_numeric(x, errors='coerce') of a text cell: an integer or a decimal
\* number, NA otherwise
ToNumeric(x) ==
    LET s == Str(x)
        P == Positions(s, ".")
    IN  IF x = NA \/ Len(s) = 0 THEN NA
        ELSE IF IsDigits(s) THEN QInt(DigitsToInt(s))
        ELSE IF Cardinality(P) = 1
        THEN LET p  == CHOOSE i \in P : TRUE
                 ip == SubSeq(s, 1, p - 1)
                 fr == SubSeq(s, p + 1, Len(s))
             IN  IF IsDigits(ip) /\ IsDigits(fr) /\ Len(ip) + Len(fr) > 0
                 THEN QAdd(QInt(DigitsToInt(ip)), Q(DigitsToInt(fr), Pow10(Len(fr))))
                 ELSE NA
        ELSE NA

\* df['normalized_date'] = df[date_col].apply(_parse_german_date), each
\* entry [exc, val]
ParsedDates(today, raw, date_col) ==
    [i \in 1..NRows(raw) |-> IF date_col # None
                             THEN _parse_german_date(today, raw.rows[i][date_col])
                             ELSE Ok(today)]

\* pd.to_numeric(...).fillna(5)
NumericOr5(v) == IF v = NA THEN QInt(5) ELSE v

\* df['review_rating'] = ...
AddReviewRating(df, rating_col) ==
    SetCol(df, "review_rating",
           [i \in 1..NRows(df) |-> IF rating_col # None
                                   THEN NumericOr5(ToNumeric(df.rows[i][rating_col]))
                                   ELSE QInt(5)])

WithReviewRating(df) ==
    AddReviewRating(df, find_col(df, <<"review_rating", "review_c", "rating", "stars">>))

\* the result is [exc, val]: an exception of _parse_german_date leaves the
\* loader
LoadReviewsWith(raw, parsed) ==
    IF \E i \in 1..NRows(raw) : parsed[i].exc # "none"
    THEN Raised("OverflowError")
    ELSE Ok(WithReviewRating(
                SetCol(raw, "normalized_date", [i \in 1..NRows(raw) |-> parsed[i].val])))

_load_reviews(today, raw) ==
    LoadReviewsWith(raw,
        ParsedDates(today, raw,
            find_col(raw, <<"review_date", "reviewer_data", "date", "review_time">>)))

\* ------------------------------------------------------------------------
\* numpy's global generator: rng is its state; one draw advances it
\* ------------------------------------------------------------------------
Seed == 42

NextRng(s) == (s + 1) % RngMod

RECURSIVE RngAfter(_, _)
RngAfter(s, k) == IF k = 0 THEN s ELSE RngAfter(NextRng(s), k - 1)

\* np.random.seed(42)
SeededRng == Seed % RngMod

\* a draw of Beta(2, 3), strictly between 0 and 1
BetaSample(s) == Q(2 * s + 1, 2 * RngMod)

\* a draw of Poisson(3.5), a count
PoissonSample(s) == s

\* np.random.beta(2, 3, size=n) after np.random.seed(42)
BetaDraws(n) == [i \in 1..n |-> BetaSample(RngAfter(SeededRng, i - 1))]

\* ------------------------------------------------------------------------
\* data_audit.py: enrichment and benchmarks
\* ------------------------------------------------------------------------
JoinKeys == <<"page_url", "url", "link">>

\* df_rev[df_rev[v_url].astype(str) == str(url)]: the matching row numbers
MatchingReviews(rev, v_url, url) ==
    {k \in 1..NRows(rev) : Str(rev.rows[k][v_url]) = Str(url)}

\* Series.sum() / len / mean over a set of row numbers
RECURSIVE QSum(_, _)
QSum(f, S) ==
    IF S = {} THEN QInt(0)
    ELSE LET k == CHOOSE k \in S : TRUE IN QAdd(f[k], QSum(f, S \ {k}))

ResponseRate(rev, resp_col, sub) ==
    IF resp_col # None
    THEN Q(Cardinality({k \in sub : rev.rows[k][resp_col] # NA}), Cardinality(sub))
    ELSE QInt(0)

RatingSentiment(rating) == QMul(QDiv(QSub(rating, QInt(1)), QInt(4)), QInt(100))

ReviewSentiment(rev, sub) ==
    RatingSentiment(
        QDiv(QSum([k \in 1..NRows(rev) |-> rev.rows[k]["review_rating"]], sub),
             QInt(Cardinality(sub))))

\* the number of the reviews of sub that are newer than `days` days
NewerThan(today, rev, sub, days) ==
    Cardinality({k \in sub : rev.rows[k]["normalized_date"] > today - days * 24})

RecencyScore(today, rev, sub) ==
    QMin(QDiv(QAdd(QMul(QInt(NewerThan(today, rev, sub, 90)), Q(7, 10)),
                   QMul(QInt(NewerThan(today, rev, sub, 180)), Q(3, 10))),
              QInt(Cardinality(sub))),
         QInt(1))

\* the neutral recency taken for "no review is recent"
NoMatchRecencyZero == QInt(0)

\* fillna(0.5), and 0.5 when no join is possible
NoMatchRecency == Q(1, 2)

\* whether the dict built over df_rest[r_url].dropna() has the key of row i:
\* the key is not NaN and some review matches it
HasEntry(url, sub) == url # NA /\ sub # {}

\* the three columns, given the join-key columns of the two tables
ResRateColumn(rest, rev, r_url, v_url, resp_col) ==
    IF r_url # None /\ v_url # None
    THEN [i \in 1..NRows(rest) |->
             IF HasEntry(rest.rows[i][r_url],
                         MatchingReviews(rev, v_url, rest.rows[i][r_url]))
             THEN ResponseRate(rev, resp_col,
                               MatchingReviews(rev, v_url, rest.rows[i][r_url]))
             ELSE QInt(0)]
    ELSE BetaDraws(NRows(rest))

SentimentColumn(rest, rev, r_url, v_url) ==
    IF r_url # None /\ v_url # None /\ "review_rating" \in SeqRange(rev.cols)
    THEN [i \in 1..NRows(rest) |->
             IF HasEntry(rest.rows[i][r_url],
                         MatchingReviews(rev, v_url, rest.rows[i][r_url]))
             THEN ReviewSentiment(rev, MatchingReviews(rev, v_url, rest.rows[i][r_url]))
             ELSE RatingSentiment(rest.rows[i]["rating_n"])]
    ELSE [i \in 1..NRows(rest) |-> RatingSentiment(rest.rows[i]["rating_n"])]

RecencyColumn(today, rest, rev, r_url, v_url) ==
    IF r_url # None /\ v_url # None /\ "normalized_date" \in SeqRange(rev.cols)
    THEN [i \in 1..NRows(rest) |->
             IF HasEntry(rest.rows[i][r_url],
                         MatchingReviews(rev, v_url, rest.rows[i][r_url]))
             THEN RecencyScore(today, rev,
                               MatchingReviews(rev, v_url, rest.rows[i][r_url]))
             ELSE NoMatchRecency]
    ELSE [i \in 1..NRows(rest) |-> NoMatchRecency]

EnrichWith(today, rest, rev, r_url, v_url) ==
    SetCol(
        SetCol(
            SetCol(rest, "res_rate",
                   ResRateColumn(rest, rev, r_url, v_url,
                                 find_col(rev, <<"owner_response", "owner_response_content">>))),
            "sentiment", SentimentColumn(rest, rev, r_url, v_url)),
        "recency_score", RecencyColumn(today, rest, rev, r_url, v_url))

_enrich_restaurants(today, rest, rev) ==
    EnrichWith(today, rest, rev, find_col(rest, JoinKeys), find_col(rev, JoinKeys))

\* the generator after _enrich_restaurants: seeded and drawn from when no
\* join is possible
RngAfterEnrich(s, rest, rev) ==
    IF find_col(rest, JoinKeys) # None /\ find_col(rev, JoinKeys) # None
    THEN s
    ELSE RngAfter(SeededRng, NRows(rest))

\* the values of a sequence of rationals in ascending order
RECURSIVE QSorted(_)
QSorted(q) ==
    IF Len(q) <= 1 THEN q
    ELSE LET i == CHOOSE i \in 1..Len(q) : \A k \in 1..Len(q) : QLe(q[i], q[k])
         IN  <<q[i]>> \o QSorted(SubSeq(q, 1, i - 1) \o SubSeq(q, i + 1, Len(q)))

\* Series.quantile(p) of the sorted values, linear interpolation at the
\* position pos = p * (n - 1)
Interpolate(srt, pos, lo) ==
    IF lo + 2 > Len(srt) THEN srt[lo + 1]
    ELSE QAdd(srt[lo + 1], QMul(QSub(pos, QInt(lo)), QSub(srt[lo + 2], srt[lo + 1])))

QuantileAt(srt, pos) == Interpolate(srt, pos, pos[1] \div pos[2])

\* Series.quantile(p), p = <<a, b>> a fraction
Quantile(q, p) == QuantileAt(QSorted(q), Q(p[1] * (Len(q) - 1), p[2]))

Benchmarks(ratings, counts) ==
    [rating         |-> Quantile(ratings, <<3, 4>>),
     response_rate  |-> Q(9, 10),
     recency        |-> Q(7, 10),
     review_volume  |-> Quantile(counts, <<3, 4>>),
     top_rating     |-> QSorted(ratings)[Len(ratings)],
     avg_rating     |-> QDiv(QSum(ratings, 1..Len(ratings)), QInt(Len(ratings))),
     median_reviews |-> Quantile(counts, <<1, 2>>)]

_compute_benchmarks(rest) ==
    Benchmarks([i \in 1..NRows(rest) |-> rest.rows[i]["rating_n"]],
               [i \in 1..NRows(rest) |-> QInt(rest.rows[i]["rev_count_n"])])

\* the triple load_and_clean_data returns
Loaded(rest, rev) == [rest |-> rest, rev |-> rev, benchmarks |-> _compute_benchmarks(rest)]

LoadWith(today, rest, rev) ==
    IF rev.exc # "none" THEN Raised(rev.exc)
    ELSE Ok(Loaded(_enrich_restaurants(today, rest, rev.val), rev.val))

\* load_and_clean_data: [exc, val] with val = [rest, rev, benchmarks]
load_and_clean_data(today, rawRest, rawRev) ==
    LoadWith(today, _load_restaurants(rawRest), _load_reviews(today, rawRev))

\* ------------------------------------------------------------------------
\* scoring_engine.py
\* ------------------------------------------------------------------------
\* df_rest[df_rest['name'] == res_name].iloc[0]: the number of the first row
\* of that name, 0 for the IndexError of an empty selection
Lookup(rest, res_name) ==
    LET M == {i \in 1..NRows(rest) : rest.rows[i]["name"] = res_name}
    IN  IF M = {} THEN 0 ELSE CHOOSE i \in M : \A k \in M : i <= k

\* row.get(col, default)
Get(row, col, default) == IF col \in DOMAIN row THEN row[col] ELSE default

\* float(x or default) of a number
QOr(x, default) == IF x = QInt(0) THEN default ELSE x

S_Mehr == <<"M","e","h","r">>
S_20 == <<"2","0">>

Dimensions ==
    <<"Reputation", "Responsiveness", "Digital Presence", "Intelligence", "Visibility">>

AllZeroScores == [k \in SeqRange(Dimensions) \cup {"Composite"} |-> 0]

\* the weights of Reputation and Responsiveness exchanged
WeightsExchanged ==
    [k \in SeqRange(Dimensions) |->
        CASE k = "Reputation" -> 25 [] k = "Responsiveness" -> 30
          [] k = "Digital Presence" -> 20 [] k = "Intelligence" -> 15
          [] k = "Visibility" -> 10]

\* the weights of the composite, in hundredths
Weights ==
    [k \in SeqRange(Dimensions) |->
        CASE k = "Reputation" -> 30 [] k = "Responsiveness" -> 25
          [] k = "Digital Presence" -> 20 [] k = "Intelligence" -> 15
          [] k = "Visibility" -> 10]

\* sum over the dimensions of weight * value
WeightedSum(v) ==
    QSum([i \in 1..5 |-> QMul(Q(Weights[Dimensions[i]], 100), v[Dimensions[i]])], 1..5)

\* recency = float(row.get('recency_score', 0.5) or 0.5)
RecencyOf(row) == QOr(Get(row, "recency_score", Q(1, 2)), Q(1, 2))

\* str(row.get(price_col, '') or '')
PriceRaw(row, price_col) ==
    IF price_col # None
    THEN (IF row[price_col] = <<>> THEN <<>> ELSE Str(row[price_col]))
    ELSE <<>>

PriceBonus(price_raw) ==
    IF Contains(price_raw, S_Mehr) THEN 10
    ELSE IF Contains(price_raw, S_20) THEN 5 ELSE 2

\* bool(website_col and pd.notna(row.get(website_col)))
HasValue(row, col) == col # None /\ row[col] # NA

Reputation(rating, rev_count) ==
    QMin(QAdd(QMul(QDiv(rating, QInt(5)), QInt(70)),
              QMul(QMin(QDiv(rev_count, QInt(500)), QInt(1)), QInt(30))),
         QInt(100))

DigitalPresence(has_website, has_phone, price_bonus) ==
    QMin(QInt((IF has_website THEN 50 ELSE 10) + (IF has_phone THEN 25 ELSE 0)
              + 15 + price_bonus),
         QInt(100))

\* the five dimension values before rounding
DimensionValues(rest, row) ==
    [k \in SeqRange(Dimensions) |->
        CASE k = "Reputation" ->
                 Reputation(QOr(Get(row, "rating_n", QInt(0)), QInt(0)),
                            QInt(Get(row, "rev_count_n", 0)))
          [] k = "Responsiveness" ->
                 QMin(QMul(QOr(Get(row, "res_rate", QInt(0)), QInt(0)), QInt(100)),
                      QInt(100))
          [] k = "Digital Presence" ->
                 DigitalPresence(HasValue(row, find_col(rest, <<"website">>)),
                                 HasValue(row, find_col(rest, <<"phone">>)),
                                 PriceBonus(PriceRaw(row, find_col(rest, <<"price">>))))
          [] k = "Intelligence" ->
                 QMin(QOr(Get(row, "sentiment", QInt(0)), QInt(0)), QInt(100))
          [] k = "Visibility" -> QMin(QMul(RecencyOf(row), QInt(100)), QInt(100))]

\* the returned dict: every dimension rounded to one decimal, the composite
\* rounded from the weighted sum of the values before rounding
RoundedScores(v) ==
    [k \in SeqRange(Dimensions) \cup {"Composite"} |->
        IF k = "Composite" THEN Round1(WeightedSum(v)) ELSE Round1(v[k])]

\* the lookup without its try/except: the IndexError of an empty selection
\* leaves the function
ScoresOfRowUnguarded(rest, i) ==
    IF i = 0 THEN Raised("IndexError")
    ELSE Ok(RoundedScores(DimensionValues(rest, rest.rows[i])))

ScoresOfRow(rest, i) ==
    IF i = 0 THEN Ok(AllZeroScores)
    ELSE Ok(RoundedScores(DimensionValues(rest, rest.rows[i])))

\* the result is [exc, val], val the mapping of the six names to tenths
compute_dimension_scores(res_name, rest) == ScoresOfRow(rest, Lookup(rest, res_name))

\* the standards of the gap analysis
Standard(bm) ==
    [k \in SeqRange(Dimensions) |->
        CASE k = "Reputation" ->
                 QMul(IF "rating" \in DOMAIN bm THEN bm["rating"]
                      ELSE Q(44, 10), QInt(20))
          [] k = "Responsiveness" -> QInt(90)
          [] k = "Digital Presence" -> QInt(85)
          [] k = "Intelligence" -> QInt(75)
          [] k = "Visibility" -> QInt(70)]

\* the items as they are, unsorted
Unsorted(items) == items

\* sorted(items, key=value, reverse=True): descending, equal values in
\* their original order
RECURSIVE SortedDescending(_)
SortedDescending(items) ==
    IF Len(items) <= 1 THEN items
    ELSE LET T == {i \in 1..Len(items) :
                      \A k \in 1..Len(items) : items[k][2] <= items[i][2]}
             i == CHOOSE i \in T : \A k \in T : i <= k
         IN  <<items[i]>>
             \o SortedDescending(SubSeq(items, 1, i - 1) \o SubSeq(items, i + 1, Len(items)))

\* round(standard - scores.get(d, 0), 1) of every dimension
Gaps(standard, scores) ==
    [i \in 1..Len(Dimensions) |->
        <<Dimensions[i],
          Round1(QSub(standard[Dimensions[i]], QTenths(scores[Dimensions[i]])))>>]

\* the result is [exc, val], val the sequence of <<dimension, gap in tenths>>
\* in the order of the returned dict; scores[d] of a dimension the mapping
\* lacks is a KeyError
get_gap_analysis(scores, bm) ==
    IF SeqRange(Dimensions) \subseteq DOMAIN scores
    THEN Ok(SortedDescending(Gaps(Standard(bm), scores)))
    ELSE Raised("KeyError")

\* res_name.split()[0]: [exc, val]; IndexError when the name has no token
FirstToken(res_name) ==
    LET T == {i \in 1..Len(res_name) : res_name[i] # " "}
    IN  IF T = {} THEN Raised("IndexError")
        ELSE LET st == CHOOSE i \in T : \A k \in T : i <= k
                 E  == {j \in st..Len(res_name) :
                           /\ \A k \in st..j : res_name[k] # " "
                           /\ (j = Len(res_name) \/ res_name[j + 1] = " ")}
             IN  Ok(SubSeq(res_name, st, CHOOSE j \in E : TRUE))

\* periods=13
SeriesLength == 13

\* .tail(13)
TailLength == 13

\* the 13 month starts that end at the month numbered `end`, with Poisson
\* counts
SyntheticSeries(end, s) ==
    [i \in 1..SeriesLength |->
        [month |-> end - SeriesLength + i,
         count |-> PoissonSample(RngAfter(s, i - 1))]]

\* pd.date_range(end=now, periods=13, freq='MS') with Poisson counts: the
\* months are month numbers (year * 12 + month - 1)
_synthetic_momentum(today, s) == SyntheticSeries(MonthIndex(today), s)

\* the rows of df_rev whose stringified join key contains the fragment
SubsetRows(rev, url_col, fragment) ==
    {k \in 1..NRows(rev) : Contains(Str(rev.rows[k][url_col]), fragment)}

\* .tail(n) of a sequence
TailN(q, n) == IF Len(q) <= n THEN q ELSE SubSeq(q, Len(q) - n + 1, Len(q))

\* the ascending sequence of the members of a set of integers
RECURSIVE Ascending(_)
Ascending(S) ==
    IF S = {} THEN <<>>
    ELSE LET m == CHOOSE m \in S : \A k \in S : m <= k
         IN  <<m>> \o Ascending(S \ {m})

\* the month of review k
MonthOfRow(rev, k) == MonthIndex(rev.rows[k]["normalized_date"])

\* groupby('_month').size(), in the order of the months
GroupSizes(rev, sub, months) ==
    [i \in 1..Len(months) |->
        [month |-> months[i],
         count |-> Cardinality({k \in sub : MonthOfRow(rev, k) = months[i]})]]

\* the monthly counts without .tail(13)
MonthlyCountsUntrimmed(rev, sub) ==
    GroupSizes(rev, sub, Ascending({MonthOfRow(rev, k) : k \in sub}))

\* .tail(13) of the monthly counts
MonthlyCounts(rev, sub) ==
    TailN(GroupSizes(rev, sub, Ascending({MonthOfRow(rev, k) : k \in sub})), TailLength)

\* the column added to df_rev itself, as without .copy()
AssignMonthInPlace(rev, sub) ==
    SetCol(rev, "_month",
           [k \in 1..NRows(rev) |-> IF k \in sub THEN MonthOfRow(rev, k) ELSE NA])

\* subset = df_rev[...].copy(); subset['_month'] = ...: the column is added
\* to the copy, the review table it was taken from stays as it is
AssignMonth(rev, sub) == rev

\* the fallback of compute_momentum
Synthetic(today, s, rev) ==
    [series |-> _synthetic_momentum(today, s), synthetic |-> TRUE,
     rev |-> rev, rng |-> RngAfter(s, SeriesLength)]

\* the series of a non-empty subset, the fallback of an empty one
MomentumOfSubset(today, s, rev, sub) ==
    IF sub = {} THEN Synthetic(today, s, rev)
    ELSE [series |-> MonthlyCounts(rev, sub), synthetic |-> FALSE,
          rev |-> AssignMonth(rev, sub), rng |-> s]

\* res_name.split()[0] if res_name else ''
Fragment(res_name) == IF res_name # <<>> THEN FirstToken(res_name) ELSE Ok(<<>>)

MomentumWith(today, s, rev, url_col, fragment) ==
    IF url_col = None \/ "normalized_date" \notin SeqRange(rev.cols)
       \/ fragment.exc # "none"
    THEN Synthetic(today, s, rev)
    ELSE MomentumOfSubset(today, s, rev, SubsetRows(rev, url_col, fragment.val))

\* the result is [series, synthetic, rev, rng]: the series, whether
\* _synthetic_momentum made it, and the review table and the generator after
\* the call
compute_momentum(today, s, res_name, rev) ==
    MomentumWith(today, s, rev, find_col(rev, JoinKeys), Fragment(res_name))

SilentWinnerRow(row) ==
    /\ QLe(Q(45, 10), QOr(Get(row, "rating_n", QInt(0)), QInt(0)))
    /\ QLt(QOr(Get(row, "res_rate", QInt(1)), QInt(1)), Q(30, 100))

SilentWinnerOfRow(rest, i) == IF i = 0 THEN FALSE ELSE SilentWinnerRow(rest.rows[i])

get_silent_winner_flag(res_name, rest) == SilentWinnerOfRow(rest, Lookup(rest, res_name))

\* format(x, '.0f'): the nearest integer, a tie going to the even one
Round0(x) ==
    LET fl  == x[1] \div x[2]
        rem == x[1] - fl * x[2]
    IN  IF 2 * rem < x[2] THEN fl
        ELSE IF 2 * rem > x[2] THEN fl + 1
        ELSE IF fl % 2 = 0 THEN fl ELSE fl + 1

\* str(row.get(price_col, '20-30') or '20-30')
PriceOf(row, price_col) ==
    IF price_col # None
    THEN (IF row[price_col] = <<>> THEN Literal.price ELSE Str(row[price_col]))
    ELSE Literal.price

PersonaDefaults ==
    [rating |-> QInt(4), price |-> Literal.price, rev_count |-> 100, res_rate |-> QInt(0)]

PersonaRow(row, price_col) ==
    [rating    |-> QOr(Get(row, "rating_n", QInt(4)), QInt(4)),
     price     |-> PriceOf(row, price_col),
     rev_count |-> Get(row, "rev_count_n", 0),
     res_rate  |-> QOr(Get(row, "res_rate", QInt(0)), QInt(0))]

PersonaOfRow(rest, i) ==
    IF i = 0 THEN PersonaDefaults
    ELSE PersonaRow(rest.rows[i], find_col(rest, <<"price">>))

\* the values of the lookup of get_customer_persona, with its defaults on
\* any exception
PersonaInputs(res_name, rest) == PersonaOfRow(rest, Lookup(rest, res_name))

\* the branch taken: 1 upscale, 2 dinner date, 3 explorer
Tier(in) ==
    IF Contains(in.price, S_Mehr) \/ QLe(Q(47, 10), in.rating) THEN 1
    ELSE IF QLe(Q(44, 10), in.rating) THEN 2 ELSE 3

Primary(tier) ==
    CASE tier = 1 -> "The Upscale Experience Seeker"
      [] tier = 2 -> "The Dinner Date Romantic"
      [] tier = 3 -> "The Curious Explorer"

Segment(tier) ==
    CASE tier = 1 -> "Corporate Dinner / Special Occasion"
      [] tier = 2 -> "Business Date / Luncher"
      [] tier = 3 -> "Walk-in / Discovery Diner"

\* the values interpolated into the English pitch of the tier
PitchEn(res_name, in, tier) ==
    IF tier = 3
    THEN [name |-> res_name, rating |-> Round1(in.rating), rev_count |-> in.rev_count]
    ELSE [name |-> res_name, rating |-> Round1(in.rating), rev_count |-> in.rev_count,
          res_pct |-> Round0(QMul(in.res_rate, QInt(100)))]

\* the values interpolated into the German pitch of the tier
PitchDe(res_name, in, tier) ==
    IF tier = 3 THEN [name |-> res_name, rating |-> Round1(in.rating)]
    ELSE PitchEn(res_name, in, tier)

Persona(res_name, in, tier) ==
    [primary |-> Primary(tier), segment |-> Segment(tier), motivation |-> tier,
     pitch_en |-> PitchEn(res_name, in, tier), pitch_de |-> PitchDe(res_name, in, tier)]

PersonaWith(res_name, in) == Persona(res_name, in, Tier(in))

\* the persona record: primary, segment and motivation are fixed by the
\* tier, the pitches are the tier's template with the interpolated values
get_customer_persona(res_name, rest) == PersonaWith(res_name, PersonaInputs(res_name, rest))

\* ------------------------------------------------------------------------
\* Inputs: the clock and the date texts
\* ------------------------------------------------------------------------
NowChoices == {DateTime(2026, 11, 3, 5), DateTime(2025, 1, 1, 0)}

DateWords ==
    { <<"v","o","r">>,
      <<"e","i","n","e","m">>,
      <<"e","i","n","e","r">>,
      <<"M","o","n","a","t">>,
      <<"M","o","n","a","t","e","n">>,
      <<"J","a","h","r","e","n">>,
      <<"W","o","c","h","e","n">>,
      <<"T","a","g","e","n">>,
      <<"S","t","u","n","d","e","n">>,
      <<"g","e","s","t","e","r","n">>,
      <<"H","e","u","t","e">>,
      <<"3">>,
      <<"3","0","0","0">>,
      <<"1","2",".","0","3",".","2","0","2","4">>,
      <<"2","0","2","4","-","0","3","-","1","2">>,
      <<"1","2","/","0","3","/","2","0","2","4">>,
      <<"3","1",".","0","2",".","2","0","2","4">> }

\* NaN, and the texts of at most MaxWords words
DateTexts ==
    {NA} \cup {JoinWords(ws) : ws \in UNION {[1..k -> DateWords] : k \in 0..MaxWords}}

NoCall == [op |-> "none"]

\* the state of a process that has loaded nothing
Idle ==
    /\ df_rest = NA
    /\ df_rev = NA
    /\ benchmarks = NA

\* ------------------------------------------------------------------------
\* Inputs: the raw tables, as read from the two files
\* ------------------------------------------------------------------------
N_A == <<"a", " ", "x">>
N_Z == <<"z">>

U_A == <<"u", "a">>
U_B == <<"u", "b">>

\* a name of a restaurant, a name of none, a blank name and the empty name
QueryNames == {N_A, N_Z, <<" ">>, <<>>}

\* the row as a function of the headers in cols
RowOf(row, cols) == [c \in SeqRange(cols) |-> row[c]]

RawRestaurantCols ==
    { <<"name", "Rating", "Reviews", "Website">>,
      <<"name", "Rating", "Reviews", "Website", "Page_URL">> }

RawRestaurantRows ==
    { << [name |-> N_A, Rating |-> r, Reviews |-> <<"1", ".", "2", "3", "4", " ", "B">>,
          Website |-> <<"w">>, Page_URL |-> u],
         [name |-> <<"b">>, Rating |-> <<"4", ".", "0">>, Reviews |-> <<"8", "0">>,
          Website |-> NA, Page_URL |-> U_B] >> :
      r \in {<<"4", ",", "8">>, <<"n", "/", "a">>}, u \in {U_A, NA} }

RawRestaurantTables ==
    { [cols |-> c, rows |-> [i \in 1..Len(rows) |-> RowOf(rows[i], c)]] :
      c \in RawRestaurantCols, rows \in RawRestaurantRows }

RawReviewCols ==
    { <<"review_date", "review_rating">>,
      <<"review_date", "review_rating", "Owner_Response">>,
      <<"Page_URL", "review_date", "review_rating">>,
      <<"Page_URL", "review_date", "review_rating", "Owner_Response">> }

RawReviewRows ==
    << [Page_URL |-> U_A, review_date |-> <<"v","o","r"," ","3"," ","T","a","g","e","n">>,
        review_rating |-> <<"5">>, Owner_Response |-> <<"x">>],
       [Page_URL |-> U_A, review_date |-> <<"v","o","r"," ","7"," ","M","o","n","a","t","e","n">>,
        review_rating |-> <<"2">>, Owner_Response |-> NA],
       [Page_URL |-> NA, review_date |-> <<"v","o","r"," ","4"," ","M","o","n","a","t","e","n">>,
        review_rating |-> <<"g","u","t">>, Owner_Response |-> <<"x">>],
       [Page_URL |-> U_B, review_date |-> <<"1","2",".","0","3",".","2","0","2","4">>,
        review_rating |-> <<"4">>, Owner_Response |-> NA],
       [Page_URL |-> U_B,
        review_date |-> <<"v","o","r"," ","3","0","0","0"," ","J","a","h","r","e","n">>,
        review_rating |-> <<"1">>, Owner_Response |-> NA] >>

\* the files of at most MaxRev of the rows, in their order
RawReviewTables ==
    { [cols |-> c, rows |-> [i \in 1..Len(sel) |-> RowOf(RawReviewRows[sel[i]], c)]] :
      c \in RawReviewCols,
      sel \in {Ascending(S) : S \in {T \in SUBSET (1..Len(RawReviewRows)) :
                                        Cardinality(T) <= MaxRev}} }

\* ------------------------------------------------------------------------
\* Specification of the pipeline: load, then any sequence of queries
\* ------------------------------------------------------------------------
Init ==
    /\ now = DateTime(2026, 11, 3, 5)
    /\ rng \in 0..(RngMod - 1)
    /\ pc = "start"
    /\ Idle
    /\ ret = NoCall

LoadAndCleanData ==
    /\ pc = "start"
    /\ \E raw_rest \in RawRestaurantTables, raw_rev \in RawReviewTables :
           \E r \in {load_and_clean_data(now, raw_rest, raw_rev)} :
               IF r.exc = "none"
               THEN /\ df_rest' = r.val.rest
                    /\ df_rev' = r.val.rev
                    /\ benchmarks' = r.val.benchmarks
                    /\ rng' = RngAfterEnrich(rng, raw_rest, raw_rev)
                    /\ pc' = "loaded"
                    /\ ret' = [op |-> "load_and_clean_data", exc |-> "none"]
               ELSE /\ pc' = "failed"
                    /\ ret' = [op |-> "load_and_clean_data", exc |-> r.exc]
                    /\ UNCHANGED <<df_rest, df_rev, benchmarks, rng>>
    /\ UNCHANGED now

ComputeDimensionScores ==
    /\ pc = "loaded"
    /\ \E res_name \in QueryNames :
           \E r \in {compute_dimension_scores(res_name, df_rest)} :
               ret' = [op |-> "compute_dimension_scores", res_name |-> res_name,
                       exc |-> r.exc, result |-> r.val]
    /\ UNCHANGED <<now, rng, pc, df_rest, df_rev, benchmarks>>

GetGapAnalysis ==
    /\ pc = "loaded"
    /\ ret.op \in {"compute_dimension_scores", "scores"}
    /\ \E r \in {get_gap_analysis(ret.result, benchmarks)} :
           ret' = [op |-> "get_gap_analysis", scores |-> ret.result,
                   exc |-> r.exc, result |-> r.val]
    /\ UNCHANGED <<now, rng, pc, df_rest, df_rev, benchmarks>>

ComputeMomentum ==
    /\ pc = "loaded"
    /\ \E res_name \in QueryNames :
           \E r \in {compute_momentum(now, rng, res_name, df_rev)} :
               /\ ret' = [op |-> "compute_momentum", res_name |-> res_name,
                          exc |-> "none", result |-> r.series]
               /\ df_rev' = r.rev
               /\ rng' = r.rng
    /\ UNCHANGED <<now, pc, df_rest, benchmarks>>

GetSilentWinnerFlag ==
    /\ pc = "loaded"
    /\ \E res_name \in QueryNames :
           ret' = [op |-> "get_silent_winner_flag", res_name |-> res_name,
                   exc |-> "none", result |-> get_silent_winner_flag(res_name, df_rest)]
    /\ UNCHANGED <<now, rng, pc, df_rest, df_rev, benchmarks>>

GetCustomerPersona ==
    /\ pc = "loaded"
    /\ \E res_name \in QueryNames :
           ret' = [op |-> "get_customer_persona", res_name |-> res_name,
                   exc |-> "none", result |-> get_customer_persona(res_name, df_rest)]
    /\ UNCHANGED <<now, rng, pc, df_rest, df_rev, benchmarks>>

Next ==
    \/ LoadAndCleanData
    \/ ComputeDimensionScores
    \/ GetGapAnalysis
    \/ ComputeMomentum
    \/ GetSilentWinnerFlag
    \/ GetCustomerPersona

Spec == Init /\ [][Next]_vars

\* ------------------------------------------------------------------------
\* Specification of the scoring of stored signals: a restaurant table with
\* one row of signals in their documented ranges, then queries
\* ------------------------------------------------------------------------
StoredRows ==
    { [name |-> N_A, rating_n |-> rating, rev_count_n |-> rev_count, res_rate |-> res_rate,
       sentiment |-> sentiment, recency_score |-> recency, Website |-> website,
       price |-> price] :
      rating \in {QInt(0), Q(433, 100), Q(48, 10), QInt(5)},
      rev_count \in {0, 137, 900},
      res_rate \in {QInt(0), Q(1, 10), Q(1, 2), QInt(1)},
      sentiment \in {QInt(0), Q(6257, 100), QInt(100)},
      recency \in {QInt(0), Q(1, 3), QInt(1)},
      website \in {NA, <<"w">>},
      price \in {Literal.price, <<"M","e","h","r"," ","a","l","s"," ","4","0">>} }

StoredTables ==
    { [cols |-> <<"name", "rating_n", "rev_count_n", "res_rate", "sentiment",
                  "recency_score", "Website", "price">>,
       rows |-> <<row>>] : row \in StoredRows }

InitScore ==
    /\ now = DateTime(2026, 11, 3, 5)
    /\ rng = 0
    /\ pc = "loaded"
    /\ df_rest \in StoredTables
    /\ df_rev = NA
    /\ benchmarks = NA
    /\ ret = NoCall

NextScore ==
    \/ ComputeDimensionScores
    \/ GetSilentWinnerFlag

SpecScore == InitScore /\ [][NextScore]_vars

\* ------------------------------------------------------------------------
\* Specification of the gap analysis: a score mapping and a benchmarks
\* mapping, then get_gap_analysis
\* ------------------------------------------------------------------------
ScoreGrid == {0, 690, 1000}

ScoreMappings ==
    { ("Reputation" :> a) @@ ("Responsiveness" :> b) @@ ("Digital Presence" :> c)
      @@ ("Intelligence" :> d) @@ ("Visibility" :> e) @@ ("Composite" :> 0) :
      a \in ScoreGrid, b \in ScoreGrid, c \in ScoreGrid, d \in ScoreGrid, e \in ScoreGrid }
    \cup { ("Reputation" :> a) @@ ("Composite" :> 999) : a \in ScoreGrid }

BenchmarkMappings ==
    { [rating |-> r, response_rate |-> Q(9, 10)] : r \in {Q(46, 10), Q(353, 80), QInt(5)} }
    \cup { [response_rate |-> Q(9, 10)] }

InitGap ==
    /\ now = DateTime(2026, 11, 3, 5)
    /\ rng = 0
    /\ pc = "loaded"
    /\ df_rest = NA
    /\ df_rev = NA
    /\ benchmarks \in BenchmarkMappings
    /\ \E s \in ScoreMappings : ret = [op |-> "scores", exc |-> "none", result |-> s]

SpecGap == InitGap /\ [][GetGapAnalysis]_vars

\* ------------------------------------------------------------------------
\* Specification of the momentum series: a loaded review table of up to
\* MaxMonths reviews, then compute_momentum
\* ------------------------------------------------------------------------
MomentumCols ==
    { <<"page_url", "normalized_date">>, <<"normalized_date">>, <<"page_url">> }

\* review k of a table: written k * gap days ago, under the key the pattern
\* gives it
MomentumRow(today, k, gap, pattern) ==
    [page_url        |-> IF pattern = "alternate" /\ k % 2 = 0 THEN U_B ELSE U_A,
     normalized_date |-> today - k * gap * 24]

MomentumTables(today) ==
    { [cols |-> c,
       rows |-> [k \in 1..n |-> RowOf(MomentumRow(today, k, gap, pattern), c)]] :
      c \in MomentumCols, n \in 0..MaxMonths, gap \in {10, 31},
      pattern \in {"same", "alternate"} }

InitMomentum ==
    /\ now \in NowChoices
    /\ rng \in 0..(RngMod - 1)
    /\ pc = "loaded"
    /\ df_rest = NA
    /\ df_rev \in MomentumTables(now)
    /\ benchmarks = NA
    /\ ret = NoCall

SpecMomentum == InitMomentum /\ [][ComputeMomentum]_vars

\* ------------------------------------------------------------------------
\* Specification of the date coercer
\* ------------------------------------------------------------------------
InitDate ==
    /\ now \in NowChoices
    /\ rng = 0
    /\ pc = "date"
    /\ Idle
    /\ \E t \in DateTexts : ret = [op |-> "input", date_str |-> t]

ParseGermanDate ==
    /\ pc = "date"
    /\ ret.op = "input"
    /\ ret' = [op |-> "_parse_german_date", date_str |-> ret.date_str,
               result |-> _parse_german_date(now, ret.date_str)]
    /\ UNCHANGED <<now, rng, pc, df_rest, df_rev, benchmarks>>

SpecDate == InitDate /\ [][ParseGermanDate]_vars

\* ------------------------------------------------------------------------
\* C8
\* ------------------------------------------------------------------------
\* the markers in the stated priority order: the marker, the hours of one
\* unit, and whether the unit is multiplied by the number in the text
MarkerTable ==
    << [marker |-> Literal.einem_monat, unit |-> 30 * 24,  times |-> FALSE],
       [marker |-> Literal.monat,       unit |-> 30 * 24,  times |-> TRUE],
       [marker |-> Literal.einem_jahr,  unit |-> 365 * 24, times |-> FALSE],
       [marker |-> Literal.jahr,        unit |-> 365 * 24, times |-> TRUE],
       [marker |-> Literal.einer_woche, unit |-> 7 * 24,   times |-> FALSE],
       [marker |-> Literal.woche,       unit |-> 7 * 24,   times |-> TRUE],
       [marker |-> Literal.tag,         unit |-> 24,       times |-> TRUE],
       [marker |-> Literal.stunde,      unit |-> 1,        times |-> TRUE],
       [marker |-> Literal.gestern,     unit |-> 24,       times |-> FALSE],
       [marker |-> Literal.heute,       unit |-> 0,        times |-> FALSE] >>

StatedDate(today, text) ==
    LET s    == Lower(text)
        hits == {i \in 1..Len(MarkerTable) : Contains(s, MarkerTable[i].marker)}
        run  == FirstDigitRun(s)
        n    == IF run = <<>> THEN 1 ELSE DigitsToInt(run)
        abs  == << Strptime(text, ".", FALSE), Strptime(text, "-", TRUE),
                   Strptime(text, "/", FALSE) >>
        good == {i \in 1..3 : abs[i].exc = "none"}
    IN  IF hits # {}
        THEN LET e == MarkerTable[CHOOSE i \in hits : \A k \in hits : i <= k]
             IN  today - (IF e.times THEN n * e.unit ELSE e.unit)
        ELSE IF good # {}
        THEN abs[CHOOSE i \in good : \A k \in good : i <= k].val
        ELSE today - 90 * 24

T_vor_einem_Monat ==
    <<"v","o","r"," ","e","i","n","e","m"," ","M","o","n","a","t">>
T_vor_3_Monaten ==
    <<"v","o","r"," ","3"," ","M","o","n","a","t","e","n">>
T_Heute == <<"H","e","u","t","e">>
T_vor_3000_Jahren ==
    <<"v","o","r"," ","3","0","0","0"," ","J","a","h","r","e","n">>

\* C8: _parse_german_date resolves every date text by the first marker in
\* the stated priority order (else an absolute date in the three formats,
\* else now minus 90 days); 'vor einem Monat' is now minus 30 days,
\* 'vor 3 Monaten' now minus 90 days, 'heute' now; and it never raises.
C8_ParseGermanDate ==
    ret.op = "_parse_german_date" =>
        /\ ret.result.exc = "none"
        /\ ret.result.val = StatedDate(now, Str(ret.date_str))
        /\ ret.date_str = T_vor_einem_Monat => ret.result.val = now - 30 * 24
        /\ ret.date_str = T_vor_3_Monaten => ret.result.val = now - 90 * 24
        /\ ret.date_str = T_Heute => ret.result.val = now

\* the stated resolution holds of every call that returns
C8_ResolutionWhenReturning ==
    (ret.op = "_parse_german_date" /\ ret.result.exc = "none") =>
        /\ ret.result.val = StatedDate(now, Str(ret.date_str))
        /\ ret.date_str = T_vor_einem_Monat => ret.result.val = now - 30 * 24
        /\ ret.date_str = T_vor_3_Monaten => ret.result.val = now - 90 * 24
        /\ ret.date_str = T_Heute => ret.result.val = now

\* a call that raises: 'vor 3000 Jahren' is before year 1
C8_RaisesOnOldDate ==
    /\ ret.op = "_parse_german_date"
    /\ ret.date_str = T_vor_3000_Jahren
    /\ ret.result.exc = "OverflowError"

\* ------------------------------------------------------------------------
\* C1
\* ------------------------------------------------------------------------
\* the stated condition of a silent winner, on the stored signals of a row
StatedSilentWinner(row) ==
    /\ QLe(Q(45, 10), row["rating_n"])
    /\ QLt(row["res_rate"], Q(30, 100))

\* C1: for every name that matches a row, get_silent_winner_flag returns
\* true exactly when the row's rating_n >= 4.5 and its res_rate < 0.30, for
\* every stored res_rate in [0,1], 0.0 included; false when no row matches.
C1_SilentWinnerFlag ==
    (pc = "loaded" /\ ret.op = "get_silent_winner_flag") =>
        \A i \in {Lookup(df_rest, ret.res_name)} :
            ret.result = (i # 0 /\ StatedSilentWinner(df_rest.rows[i]))

\* a restaurant rated 4.5 or more that answers no review at all, and is not
\* flagged
C1_ZeroRateNotFlagged ==
    /\ pc = "loaded"
    /\ ret.op = "get_silent_winner_flag"
    /\ \E i \in {Lookup(df_rest, ret.res_name)} :
           /\ i # 0
           /\ QLe(Q(45, 10), df_rest.rows[i]["rating_n"])
           /\ df_rest.rows[i]["res_rate"] = QInt(0)
    /\ ret.result = FALSE

\* ------------------------------------------------------------------------
\* C3
\* ------------------------------------------------------------------------
Between(lo, x, hi) == x # NA /\ QLe(QInt(lo), x) /\ QLe(x, QInt(hi))

\* C3: after enrichment every restaurant row has res_rate, sentiment and
\* recency_score populated, res_rate in [0,1], sentiment in [0,100] and
\* recency_score in [0,1], whatever rating_n the loader produced.
C3_EnrichmentRanges ==
    (pc = "loaded" /\ ret.op = "load_and_clean_data") =>
        \A i \in 1..NRows(df_rest) :
            /\ {"res_rate", "sentiment", "recency_score"} \subseteq DOMAIN df_rest.rows[i]
            /\ Between(0, df_rest.rows[i]["res_rate"], 1)
            /\ Between(0, df_rest.rows[i]["sentiment"], 100)
            /\ Between(0, df_rest.rows[i]["recency_score"], 1)

\* a restaurant whose rating could not be parsed, enriched with a negative
\* sentiment
C3_NegativeSentiment ==
    /\ pc = "loaded"
    /\ ret.op = "load_and_clean_data"
    /\ \E i \in 1..NRows(df_rest) :
           /\ df_rest.rows[i]["rating_n"] = QInt(0)
           /\ df_rest.rows[i]["sentiment"] = QInt(-25)

\* ------------------------------------------------------------------------
\* C4
\* ------------------------------------------------------------------------
StatedVisibility(row) == QMin(QMul(row["recency_score"], QInt(100)), QInt(100))

\* the composite with the stated visibility in the place of the computed one
CompositeWith(rest, row, visibility) ==
    Round1(WeightedSum([DimensionValues(rest, row) EXCEPT !["Visibility"] = visibility]))

\* C4: for every found restaurant and every stored recency_score in [0,1],
\* 0 included, Visibility is min(recency_score * 100, 100) rounded to one
\* decimal, and that value is the one weighted 0.10 in Composite.
C4_Visibility ==
    (pc = "loaded" /\ ret.op = "compute_dimension_scores") =>
        \A i \in {Lookup(df_rest, ret.res_name)} :
            i # 0 =>
                /\ ret.result["Visibility"] = Round1(StatedVisibility(df_rest.rows[i]))
                /\ ret.result["Composite"]
                       = CompositeWith(df_rest, df_rest.rows[i],
                                       StatedVisibility(df_rest.rows[i]))

\* a restaurant whose matched reviews are all older than 180 days, scored
\* 50.0 for visibility
C4_ZeroRecencyScoredFifty ==
    /\ pc = "loaded"
    /\ ret.op = "compute_dimension_scores"
    /\ \E i \in {Lookup(df_rest, ret.res_name)} :
           /\ i # 0
           /\ df_rest.rows[i]["recency_score"] = QInt(0)
    /\ ret.result["Visibility"] = 500

\* ------------------------------------------------------------------------
\* C5
\* ------------------------------------------------------------------------
NamedQueries ==
    {"compute_dimension_scores", "compute_momentum", "get_silent_winner_flag",
     "get_customer_persona"}

\* there is no token, or no review under a join key that contains it
NoReviewMatches(rev, res_name) ==
    \/ find_col(rev, JoinKeys) = None
    \/ Fragment(res_name).exc # "none"
    \/ \A k \in 1..NRows(rev) :
           ~Contains(Str(rev.rows[k][find_col(rev, JoinKeys)]), Fragment(res_name).val)

\* 13 entries at consecutive months, the last one the month of today
SyntheticShape(today, series) ==
    /\ Len(series) = 13
    /\ \A i \in 1..13 : series[i].month = MonthIndex(today) - 13 + i

\* C5: for every queried name that matches no row, no query raises:
\* compute_dimension_scores returns the six entries all 0,
\* get_silent_winner_flag returns false, compute_momentum returns a series
\* (synthetic when no review matches), get_customer_persona returns a
\* persona record.
C5_NameNotFound ==
    (pc = "loaded" /\ ret.op \in NamedQueries /\ Lookup(df_rest, ret.res_name) = 0) =>
        /\ ret.exc = "none"
        /\ ret.op = "compute_dimension_scores" =>
               /\ DOMAIN ret.result = SeqRange(Dimensions) \cup {"Composite"}
               /\ \A k \in DOMAIN ret.result : ret.result[k] = 0
        /\ ret.op = "get_silent_winner_flag" => ret.result = FALSE
        /\ ret.op = "compute_momentum" =>
               /\ Len(ret.result) \in 0..13
               /\ NoReviewMatches(df_rev, ret.res_name) => SyntheticShape(now, ret.result)
        /\ ret.op = "get_customer_persona" =>
               /\ DOMAIN ret.result = {"primary", "segment", "motivation", "pitch_en", "pitch_de"}
               /\ ret.result.primary = "The Curious Explorer"

\* the scores of a name no restaurant has
C5_UnknownNameScored ==
    /\ pc = "loaded"
    /\ ret.op = "compute_dimension_scores"
    /\ ret.res_name = N_Z
    /\ Lookup(df_rest, N_Z) = 0
    /\ ret.result["Composite"] = 0

\* ------------------------------------------------------------------------
\* C9
\* ------------------------------------------------------------------------
\* the result the operation of ret gives on the tables as they are now
ResultNow ==
    CASE ret.op = "compute_dimension_scores" ->
             compute_dimension_scores(ret.res_name, df_rest).val
      [] ret.op = "get_gap_analysis" -> get_gap_analysis(ret.scores, benchmarks).val
      [] ret.op = "get_silent_winner_flag" -> get_silent_winner_flag(ret.res_name, df_rest)
      [] ret.op = "get_customer_persona" -> get_customer_persona(ret.res_name, df_rest)

\* C9: no sequence of queries changes the restaurants table, the reviews
\* table or the benchmarks mapping, so compute_dimension_scores,
\* get_gap_analysis, get_silent_winner_flag and get_customer_persona give
\* the same result whenever they are repeated with the same arguments: the
\* result of a call is the one the tables of any later state give.
C9_QueriesReadOnly ==
    /\ [][pc = "loaded" =>
              /\ df_rest' = df_rest
              /\ df_rev' = df_rev
              /\ benchmarks' = benchmarks]_vars
    /\ []((pc = "loaded" /\ ret.op \in NamedQueries \cup {"get_gap_analysis"}
           /\ ret.op # "compute_momentum") => ret.result = ResultNow)

\* a momentum series counted from the reviews of the restaurant, with the
\* reviews table as it was loaded
C9_MomentumComputed ==
    /\ pc = "loaded"
    /\ ret.op = "compute_momentum"
    /\ ret.res_name = N_A
    /\ Len(ret.result) < 13
    /\ "_month" \notin SeqRange(df_rev.cols)

\* ------------------------------------------------------------------------
\* C10
\* ------------------------------------------------------------------------
\* (rating_n - 1) / 4 * 100
StatedSentiment(row) == QMul(QDiv(QSub(row["rating_n"], QInt(1)), QInt(4)), QInt(100))

\* the reviews whose stringified join key is the stringified key of the row
OwnReviews(rest, rev, row) ==
    {k \in 1..NRows(rev) :
        Str(rev.rows[k][find_col(rev, JoinKeys)]) = Str(row[find_col(rest, JoinKeys)])}

\* C10: when both tables have a join-key column, every restaurant with no
\* review under its own stringified join key (a missing key included) gets
\* res_rate 0.0, sentiment (rating_n - 1) / 4 * 100 and recency_score 0.5;
\* when either table lacks the column, every restaurant gets that sentiment
\* and recency_score 0.5, and res_rate from the seeded fallback draw.
C10_EnrichmentDefaults ==
    (pc = "loaded" /\ ret.op = "load_and_clean_data") =>
        IF find_col(df_rest, JoinKeys) # None /\ find_col(df_rev, JoinKeys) # None
        THEN \A i \in 1..NRows(df_rest) :
                 OwnReviews(df_rest, df_rev, df_rest.rows[i]) = {} =>
                     /\ df_rest.rows[i]["res_rate"] = QInt(0)
                     /\ df_rest.rows[i]["sentiment"] = StatedSentiment(df_rest.rows[i])
                     /\ df_rest.rows[i]["recency_score"] = Q(1, 2)
        ELSE \A i \in 1..NRows(df_rest) :
                 /\ df_rest.rows[i]["res_rate"] = BetaDraws(NRows(df_rest))[i]
                 /\ df_rest.rows[i]["sentiment"] = StatedSentiment(df_rest.rows[i])
                 /\ df_rest.rows[i]["recency_score"] = Q(1, 2)

\* a join in which a restaurant without a join key has the defaults while
\* another restaurant has its reviews
C10_MissingKeyDefaults ==
    /\ pc = "loaded"
    /\ ret.op = "load_and_clean_data"
    /\ find_col(df_rest, JoinKeys) # None
    /\ find_col(df_rev, JoinKeys) # None
    /\ \E i, j \in 1..NRows(df_rest) :
           /\ df_rest.rows[i][find_col(df_rest, JoinKeys)] = NA
           /\ OwnReviews(df_rest, df_rev, df_rest.rows[i]) = {}
           /\ df_rest.rows[i]["res_rate"] = QInt(0)
           /\ df_rest.rows[i]["recency_score"] = Q(1, 2)
           /\ OwnReviews(df_rest, df_rev, df_rest.rows[j]) # {}

\* ------------------------------------------------------------------------
\* C2
\* ------------------------------------------------------------------------
\* the stored signals in their documented ranges
SignalsInRange(row) ==
    /\ Between(0, row["rating_n"], 5)
    /\ row["rev_count_n"] >= 0
    /\ Between(0, row["res_rate"], 1)
    /\ Between(0, row["sentiment"], 100)
    /\ Between(0, row["recency_score"], 1)

\* 0.30 * Reputation + 0.25 * Responsiveness + 0.20 * Digital Presence
\* + 0.15 * Intelligence + 0.10 * Visibility, of a mapping to rationals
StatedComposite(v) ==
    QAdd(QMul(Q(30, 100), v["Reputation"]),
    QAdd(QMul(Q(25, 100), v["Responsiveness"]),
    QAdd(QMul(Q(20, 100), v["Digital Presence"]),
    QAdd(QMul(Q(15, 100), v["Intelligence"]),
         QMul(Q(10, 100), v["Visibility"])))))

\* the returned dimension values, as rationals
Returned(result) == [k \in SeqRange(Dimensions) |-> QTenths(result[k])]

\* |a - b| <= e
Within(a, b, e) == QLe(QSub(a, b), e) /\ QLe(QSub(b, a), e)

\* C2, as stated: for every found restaurant with its signals in range the
\* six scores are in [0,100] and Composite equals the weighted sum of the
\* five returned, rounded dimension values.
C2_CompositeOfReturned ==
    (pc = "loaded" /\ ret.op = "compute_dimension_scores") =>
        \A i \in {Lookup(df_rest, ret.res_name)} :
            (i # 0 /\ SignalsInRange(df_rest.rows[i])) =>
                /\ \A k \in DOMAIN ret.result : ret.result[k] \in 0..1000
                /\ QTenths(ret.result["Composite"]) = StatedComposite(Returned(ret.result))

\* C2, amended: for every found restaurant with its signals in range the
\* six scores are in [0,100], Composite is the weighted sum of the five
\* dimension values before their rounding, rounded to one decimal, and it
\* is within 0.1 of the weighted sum of the five returned values.
C2_CompositeRounded ==
    (pc = "loaded" /\ ret.op = "compute_dimension_scores") =>
        \A i \in {Lookup(df_rest, ret.res_name)} :
            (i # 0 /\ SignalsInRange(df_rest.rows[i])) =>
                /\ \A k \in DOMAIN ret.result : ret.result[k] \in 0..1000
                /\ ret.result["Composite"]
                       = Round1(StatedComposite(DimensionValues(df_rest, df_rest.rows[i])))
                /\ Within(QTenths(ret.result["Composite"]),
                          StatedComposite(Returned(ret.result)), Q(1, 10))

\* a found restaurant whose Composite is not the weighted sum of its
\* returned dimension values
C2_CompositeDiffers ==
    /\ pc = "loaded"
    /\ ret.op = "compute_dimension_scores"
    /\ Lookup(df_rest, ret.res_name) # 0
    /\ SignalsInRange(df_rest.rows[Lookup(df_rest, ret.res_name)])
    /\ QTenths(ret.result["Composite"]) # StatedComposite(Returned(ret.result))

\* ------------------------------------------------------------------------
\* C6
\* ------------------------------------------------------------------------
\* the stated standards, for a benchmarks mapping that has a rating
StatedStandard(bm, d) ==
    CASE d = "Reputation" -> QMul(bm["rating"], QInt(20))
      [] d = "Responsiveness" -> QInt(90)
      [] d = "Digital Presence" -> QInt(85)
      [] d = "Intelligence" -> QInt(75)
      [] d = "Visibility" -> QInt(70)

\* the five dimensions, once each
FiveDimensions(result) ==
    /\ Len(result) = 5
    /\ {result[i][1] : i \in 1..5} = SeqRange(Dimensions)

NonIncreasing(result) ==
    \A i \in 1..(Len(result) - 1) : result[i][2] >= result[i + 1][2]

\* C6, as stated: for every score mapping and every benchmarks mapping
\* get_gap_analysis returns exactly the five dimensions, each mapped to
\* standard minus actual, ordered by gap descending.
C6_GapIsDifference ==
    (pc = "loaded" /\ ret.op = "get_gap_analysis" /\ "rating" \in DOMAIN benchmarks) =>
        /\ ret.exc = "none"
        /\ FiveDimensions(ret.result)
        /\ \A i \in 1..Len(ret.result) :
               QTenths(ret.result[i][2])
                   = QSub(StatedStandard(benchmarks, ret.result[i][1]),
                          QTenths(ret.scores[ret.result[i][1]]))
        /\ NonIncreasing(ret.result)

\* C6, amended: for every score mapping that has the five dimensions
\* get_gap_analysis returns exactly the five dimensions, each mapped to
\* standard minus actual rounded to one decimal (a rating the benchmarks
\* mapping lacks counting 4.4), ordered by the rounded gap descending; for
\* a score mapping that lacks a dimension it raises KeyError.
C6_GapIsRoundedDifference ==
    (pc = "loaded" /\ ret.op = "get_gap_analysis") =>
        IF SeqRange(Dimensions) \subseteq DOMAIN ret.scores
        THEN /\ ret.exc = "none"
             /\ FiveDimensions(ret.result)
             /\ \A i \in 1..Len(ret.result) :
                    ret.result[i][2]
                        = Round1(QSub(StatedStandard(
                                          IF "rating" \in DOMAIN benchmarks THEN benchmarks
                                          ELSE [rating |-> Q(44, 10)],
                                          ret.result[i][1]),
                                      QTenths(ret.scores[ret.result[i][1]])))
             /\ NonIncreasing(ret.result)
        ELSE ret.exc = "KeyError"

\* a benchmark rating of 4.4125 against a reputation of 69.0: the gap 19.25
\* is returned as 19.2, below the gap 20.0 of a responsiveness of 70.0
C6_RoundedGap ==
    /\ pc = "loaded"
    /\ ret.op = "get_gap_analysis"
    /\ ret.exc = "none"
    /\ "rating" \in DOMAIN benchmarks
    /\ benchmarks["rating"] = Q(353, 80)
    /\ \E i, j \in 1..Len(ret.result) :
           /\ i < j
           /\ ret.result[i] = <<"Responsiveness", 210>>
           /\ ret.result[j] = <<"Reputation", 192>>

\* ------------------------------------------------------------------------
\* C7
\* ------------------------------------------------------------------------
StrictlyIncreasingMonths(series) ==
    \A i \in 1..(Len(series) - 1) : series[i].month < series[i + 1].month

\* C7: for every name, the empty and the whitespace-only one included, and
\* every review table, compute_momentum returns at most 13 (month, count)
\* entries with strictly increasing months; when the table has no join-key
\* column, no normalized_date, or no review whose join key contains the
\* first token of the name, the result is the synthetic series: 13 entries
\* at consecutive months ending at the current month.
C7_MomentumSeries ==
    (pc = "loaded" /\ ret.op = "compute_momentum") =>
        /\ Len(ret.result) <= 13
        /\ StrictlyIncreasingMonths(ret.result)
        /\ \A i \in 1..Len(ret.result) : ret.result[i].count \in Nat
        /\ ("normalized_date" \notin SeqRange(df_rev.cols)
            \/ NoReviewMatches(df_rev, ret.res_name)) => SyntheticShape(now, ret.result)

\* a series counted from more than 13 months of reviews of the restaurant:
\* the last 13 of them, none of the current month
C7_LastThirteenMonths ==
    /\ pc = "loaded"
    /\ ret.op = "compute_momentum"
    /\ ret.res_name = N_A
    /\ NRows(df_rev) > 13
    /\ Len(ret.result) = 13
    /\ ret.result[13].month < MonthIndex(now)
    /\ MonthOfRow(df_rev, NRows(df_rev)) < ret.result[1].month

====
